---- MODULE Spec2Model ----
(***************************************************************************)
(* SmartVendo+ points ledger and redemption engine (src/app.py).           *)
(*                                                                         *)
(* Every Flask request handler opens its own sqlite3 connection (get_db).  *)
(* The Python sqlite3 module runs SELECT statements outside a transaction  *)
(* and opens an implicit transaction before the first INSERT/UPDATE of a   *)
(* connection; the transaction holds SQLite's single write lock until      *)
(* db.commit().  Other connections read the last committed state.  A       *)
(* handler is therefore modelled as one step per SQL statement: SELECTs    *)
(* read the committed database `db`, writes go to the working copy `wdb`   *)
(* of the connection that holds the write lock, and commit publishes it.   *)
(***************************************************************************)
EXTENDS Integers, Sequences, FiniteSets, TLC

\* ---------------------------------------------------------------- bounds
NumClients == 2      \* browser sessions (Flask session cookies) issuing requests
NumCards == 2        \* distinct RFID UIDs that can be presented
NumRegistered == 1   \* cards registered before the run starts
NumRewards == 2      \* rows of default_rewards taken into the catalog
MaxRequests == 3     \* requests started in one run
InitStock == 1       \* stock of every catalog row at the start of the run
MaxTime == 61        \* days the clock may reach
MaxReads == 3        \* iterations of the loop of RFIDReader.run
MaxSeconds == 7      \* value time.time() may reach

Clients == 1..NumClients
Cards == 1..NumCards
RewardIds == 1..NumRewards
None == 0

\* ------------------------------------------------------- program constants
POINTS_PER_PAPER == 5
POINTS_PER_PLASTIC == 10
\* expiration_date = datetime.now() + timedelta(days=60)
EXPIRATION_DAYS == 60

\* default_rewards (names in insertion order; AUTOINCREMENT ids 1,2,3)
RewardNames == <<"pencil", "eraser", "ballpen", "marker">>
\* catalog prices: the default 100/150/100 repriced by the admin PUT to a
\* tenth, so that a handful of deposits can pay for a reward
CatalogCost == <<10, 15, 10, 20>>

\* item types a deposit request may carry; "" is a body without item_type
ItemTypes == {"paper", "plastic", "glass", ""}
\* names a redeem request may carry: the catalog rows and one absent name
RequestNames == {RewardNames[i] : i \in RewardIds} \cup {"none"}

VARIABLES
  db,        \* committed database: users, rewards, deposits, redeems, logs
  wdb,       \* working copy of the connection holding the write lock
  writer,    \* client whose connection holds the write lock, or None
  session,   \* session[c]: session['user_id'] of client c, or None
  pc,        \* pc[c]: statement the handler serving c executes next
  req,       \* req[c]: the request being served (op and argument)
  user,      \* user[c]: row fetched by SELECT ... FROM users
  reward,    \* reward[c]: row fetched by SELECT ... FROM rewards
  resp,      \* the response the last step returned, if it returned one
  nreq,      \* requests started so far
  admin,     \* admin[c]: 'admin_logged_in' is in the app.py session of c
  backend,   \* backend[c]: the admin_backend.py session of c is logged in
  now,       \* the clock, in days since the start of the run
  reader     \* locals of RFIDReader.run and the requests it has posted

vars == <<db, wdb, writer, session, pc, req, user, reward, resp, nreq,
          admin, backend, now, reader>>

NoRow == [id |-> None]
NoReq == [op |-> "none", arg |-> None]
NoResp == [client |-> None, success |-> FALSE, message |-> "none", new_balance |-> 0]

\* --------------------------------------------------------- rfid-reader.py
\* if current_time - last_read_time > 2
READ_WINDOW == 2
\* time.time() when the reader starts: the epoch is long past
StartTime == 3
\* parse_uid returning None, and last_uid = None
NoUid == <<>>

\* UIDs as the reader hardware prints them, a sequence of characters
HexCards == << <<"4", "F", "3", "1", "1", "0", "E", "8">>,
               <<"A", "B", "C", "D", "1", "2", "3", "4">>,
               <<"D", "E", "A", "D", "B", "E", "E", "F">>,
               <<"C", "A", "F", "E", "B", "A", "B", "E">> >>

\* str.lower() of one character (the letters of a hex UID)
ToLower(ch) ==
  CASE ch = "A" -> "a" [] ch = "B" -> "b" [] ch = "C" -> "c"
    [] ch = "D" -> "d" [] ch = "E" -> "e" [] ch = "F" -> "f"
    [] OTHER -> ch

\* c.isalnum(), for the characters a reader line is made of here
IsAlnum(ch) ==
  ch \in {"0", "1", "2", "3", "4", "5", "6", "7", "8", "9",
          "A", "B", "C", "D", "E", "F", "a", "b", "c", "d", "e", "f"}

\* the line "4F:31:10:E8" for the bytes "4F3110E8"
Separated(hex) ==
  <<hex[1], hex[2], ":", hex[3], hex[4], ":", hex[5], hex[6], ":",
    hex[7], hex[8]>>

LowerCase(data) == [i \in 1..Len(data) |-> ToLower(data[i])]

\* lines ser.readline() may return: nothing, a line too short for a UID,
\* and every card in upper and lower case, with and without separators
RawReads ==
  {<<>>, <<"4", "F">>}
  \cup {HexCards[k] : k \in Cards}
  \cup {Separated(HexCards[k]) : k \in Cards}
  \cup {LowerCase(HexCards[k]) : k \in Cards}
  \cup {LowerCase(Separated(HexCards[k])) : k \in Cards}

\* RFIDReader.parse_uid: keep the alphanumeric characters, cut them into
\* pairs, join the first four pairs with ':'
parse_uid(data) ==
  LET clean_data == SelectSeq(data, IsAlnum)
  IN IF Len(clean_data) >= 8 THEN Separated(clean_data) ELSE NoUid

\* the locals of run() before the loop; nothing read, nothing posted
ReaderStart ==
  [raw |-> <<>>, uid |-> NoUid, last_uid |-> NoUid, last_read_time |-> 0,
   time |-> StartTime, reads |-> 0, sent |-> <<>>]

\* every read UID is forwarded
Forwards_Always(uid) == uid # NoUid

\* if uid and uid != last_uid: ... if current_time - last_read_time > 2:
Forwards(uid) ==
  /\ uid # NoUid
  /\ uid # reader.last_uid
  /\ reader.time - reader.last_read_time > READ_WINDOW

\* ------------------------------------------------------------- init_db
\* rows of default_rewards as INSERT OR IGNORE leaves them, repriced
DefaultRewards(stock) ==
  [r \in RewardIds |->
     [id |-> r, name |-> RewardNames[r], display_name |-> RewardNames[r],
      image_filename |-> RewardNames[r], cost |-> CatalogCost[r],
      stock |-> stock, is_active |-> TRUE, updated_at |-> 0]]

\* the account the terminal of client c is bound to at the start of the run
InitSession(c) == (((c - 1) \div 2) % NumRegistered) + 1

\* The run starts from a database in which the cards 1..NumRegistered have
\* gone through api_user_register (balance 0.0, is_active 1, no history) and
\* every client has scanned one of them (last_login set); system_logs holds
\* the user_register and user_login events of that.
StartDb(stock) ==
  [users |-> [u \in 1..NumRegistered |->
                [id |-> u, rfid_uid |-> u, balance |-> 0, is_active |-> TRUE,
                 expiration_date |-> EXPIRATION_DAYS,
                 last_login |-> \E c \in Clients : InitSession(c) = u]],
   rewards |-> DefaultRewards(stock),
   deposits |-> <<>>, redeems |-> <<>>,
   logs |-> NumRegistered + NumClients]

InitWith(stock) ==
  /\ db = StartDb(stock)
  /\ wdb = StartDb(stock)
  /\ writer = None
  /\ session = [c \in Clients |-> InitSession(c)]
  /\ pc = [c \in Clients |-> "idle"]
  /\ req = [c \in Clients |-> NoReq]
  /\ user = [c \in Clients |-> NoRow]
  /\ reward = [c \in Clients |-> NoRow]
  /\ resp = NoResp
  /\ nreq = 0
  /\ admin = [c \in Clients |-> FALSE]
  /\ backend = [c \in Clients |-> FALSE]
  /\ now = 0
  /\ reader = ReaderStart

Init == InitWith(InitStock)

\* ------------------------------------------------------------ SQL helpers
\* the WHERE clause is dropped: the first row of the table is returned
UserByCard_First(uid) == IF Len(db.users) > 0 THEN db.users[1] ELSE NoRow

\* SELECT * FROM users WHERE rfid_uid = ?  (committed state)
UserByCard(uid) ==
  IF \E i \in 1..Len(db.users) : db.users[i].rfid_uid = uid
  THEN db.users[CHOOSE i \in 1..Len(db.users) : db.users[i].rfid_uid = uid]
  ELSE NoRow

\* SELECT * FROM users WHERE id = ?
UserById(id) == IF id \in 1..Len(db.users) THEN db.users[id] ELSE NoRow

\* the lookup ignores is_active
ActiveRewardByName_AnyRow(name) ==
  IF \E r \in DOMAIN db.rewards : db.rewards[r].name = name
  THEN db.rewards[CHOOSE r \in DOMAIN db.rewards : db.rewards[r].name = name]
  ELSE NoRow

\* SELECT * FROM rewards WHERE name = ? AND is_active = 1
ActiveRewardByName(name) ==
  IF \E r \in DOMAIN db.rewards :
       db.rewards[r].name = name /\ db.rewards[r].is_active
  THEN db.rewards[CHOOSE r \in DOMAIN db.rewards :
                    db.rewards[r].name = name /\ db.rewards[r].is_active]
  ELSE NoRow

\* the statement replaces the rows of the table by the new row
InsertRow_Replace(rows, row) == <<row>>

\* INSERT INTO <table> (...) VALUES (...): the table gains one row
InsertRow(rows, row) == Append(rows, row)

\* the session check lets every request through
NotLoggedIn_Never(c) == FALSE

\* if 'user_id' not in session
NotLoggedIn(c) == session[c] = None

\* the UPDATE has no WHERE clause: every account gets the balance
SetBalance_AllRows(image, id, bal) ==
  [image EXCEPT !.users = [u \in DOMAIN @ |-> [@[u] EXCEPT !.balance = bal]]]

\* UPDATE users SET balance = ? WHERE id = ?
SetBalance(image, id, bal) == [image EXCEPT !.users[id].balance = bal]

\* the UPDATE of the scan also clears the balance
SetLastLogin_ClearBalance(image, id) ==
  [image EXCEPT !.users[id].last_login = TRUE, !.users[id].balance = 0]

\* UPDATE users SET last_login = CURRENT_TIMESTAMP WHERE id = ?
SetLastLogin(image, id) == [image EXCEPT !.users[id].last_login = TRUE]

\* A write statement on connection c: the implicit BEGIN takes the write
\* lock (or the connection already holds it) and the statement changes the
\* connection's working copy only.
Write(c, image) ==
  /\ writer \in {None, c}
  /\ writer' = c
  /\ wdb' = image
  /\ db' = db

\* db.commit(): the working copy becomes the committed state.
Commit(c) ==
  /\ writer = c
  /\ db' = wdb
  /\ wdb' = wdb
  /\ writer' = None

\* return jsonify(...): the response goes to the client and the handler's
\* locals are gone.
Respond(c, ok, msg, bal) ==
  /\ resp' = [client |-> c, success |-> ok, message |-> msg, new_balance |-> bal]
  /\ pc' = [pc EXCEPT ![c] = "idle"]
  /\ req' = [req EXCEPT ![c] = NoReq]
  /\ user' = [user EXCEPT ![c] = NoRow]
  /\ reward' = [reward EXCEPT ![c] = NoRow]
  /\ UNCHANGED <<admin, backend, now, reader>>

\* The handler goes on to the statement at `label`; the step returns nothing.
Goto(c, label) ==
  /\ pc' = [pc EXCEPT ![c] = label]
  /\ resp' = NoResp
  /\ UNCHANGED <<req, user, reward, admin, backend, now, reader>>

\* The handler goes on after a SELECT or an INSERT left rows in its locals.
Fetch(c, label, urow, rrow) ==
  /\ pc' = [pc EXCEPT ![c] = label]
  /\ user' = [user EXCEPT ![c] = urow]
  /\ reward' = [reward EXCEPT ![c] = rrow]
  /\ resp' = NoResp
  /\ req' = req
  /\ UNCHANGED <<admin, backend, now, reader>>

\* A handler starts: a worker picks up a request of client c.
Start(c) ==
  /\ pc[c] = "idle"
  /\ nreq < MaxRequests
  /\ nreq' = nreq + 1

\* The handler keeps the request body and goes on with the fetched rows.
Accept(c, label, op, arg, urow, rrow) ==
  /\ pc' = [pc EXCEPT ![c] = label]
  /\ req' = [req EXCEPT ![c] = [op |-> op, arg |-> arg]]
  /\ user' = [user EXCEPT ![c] = urow]
  /\ reward' = [reward EXCEPT ![c] = rrow]
  /\ resp' = NoResp
  /\ UNCHANGED <<admin, backend, now, reader>>

\* log_event(): its own connection, one INSERT and a commit.
log_event(c) ==
  /\ writer = None
  /\ db' = [db EXCEPT !.logs = @ + 1]
  /\ wdb' = [wdb EXCEPT !.logs = @ + 1]
  /\ writer' = writer

\* ------------------------------------------------------- api_rfid_read
\* a terminal that is bound keeps its binding
BindSession_KeepBound(c, id) ==
  IF session[c] = None THEN [session EXCEPT ![c] = id] ELSE session

\* session['user_id'] = user['id']
BindSession(c, id) == [session EXCEPT ![c] = id]

api_rfid_read(c, uid) ==
  /\ Start(c)
  /\ LET row == UserByCard(uid) IN
       IF uid = None
       THEN /\ Respond(c, FALSE, "No RFID UID provided", 0)
            /\ session' = session
       ELSE IF row.id # None
       THEN /\ session' = BindSession(c, row.id)
            /\ Accept(c, "rfid_update", "rfid_read", uid, row, NoRow)
       ELSE /\ Respond(c, TRUE, "register", 0)
            /\ session' = session
  /\ UNCHANGED <<db, wdb, writer>>

\* UPDATE users SET last_login = CURRENT_TIMESTAMP WHERE id = ?
rfid_update(c) ==
  /\ pc[c] = "rfid_update"
  /\ Write(c, SetLastLogin(wdb, user[c].id))
  /\ Goto(c, "rfid_commit")
  /\ UNCHANGED <<session, nreq>>

rfid_commit(c) ==
  /\ pc[c] = "rfid_commit"
  /\ Commit(c)
  /\ Goto(c, "rfid_log")
  /\ UNCHANGED <<session, nreq>>

rfid_log(c) ==
  /\ pc[c] = "rfid_log"
  /\ log_event(c)
  /\ Respond(c, TRUE, "login", user[c].balance)
  /\ UNCHANGED <<session, nreq>>

\* --------------------------------------------------- api_user_register
api_user_register(c, uid) ==
  /\ Start(c)
  /\ IF uid = None
     THEN Respond(c, FALSE, "RFID UID required", 0)
     ELSE IF UserByCard(uid).id # None
     THEN Respond(c, FALSE, "RFID already registered", 0)
     ELSE Accept(c, "reg_insert", "register", uid, NoRow, NoRow)
  /\ UNCHANGED <<db, wdb, writer, session>>

\* the UNIQUE constraint is not enforced
CardTaken_Never(uid) == FALSE

\* rfid_uid TEXT UNIQUE NOT NULL, as the writing connection sees the table
CardTaken(uid) == \E i \in 1..Len(wdb.users) : wdb.users[i].rfid_uid = uid

\* INSERT INTO users (...): rfid_uid is UNIQUE, so the statement raises
\* sqlite3.IntegrityError when the card has been registered meanwhile; the
\* handler does not catch it and the request ends in a server error.
reg_insert(c) ==
  /\ pc[c] = "reg_insert"
  /\ writer \in {None, c}
  /\ IF CardTaken(req[c].arg)
     THEN /\ Respond(c, FALSE, "server error", 0)
          /\ UNCHANGED <<db, wdb, writer>>
     ELSE /\ Write(c, [wdb EXCEPT !.users = Append(@,
                 [id |-> Len(wdb.users) + 1, rfid_uid |-> req[c].arg,
                  balance |-> 0, is_active |-> TRUE,
                  expiration_date |-> now + EXPIRATION_DAYS,
                  last_login |-> FALSE])])
          /\ Fetch(c, "reg_commit", [id |-> Len(wdb.users) + 1], NoRow)
  /\ UNCHANGED <<session, nreq>>

reg_commit(c) ==
  /\ pc[c] = "reg_commit"
  /\ Commit(c)
  /\ Goto(c, "reg_log")
  /\ UNCHANGED <<session, nreq>>

reg_log(c) ==
  /\ pc[c] = "reg_log"
  /\ log_event(c)
  /\ Respond(c, TRUE, "Registration successful", 0)
  /\ UNCHANGED <<session, nreq>>

\* ---------------------------------------------------- api_user_deposit
\* the two awards exchanged
Points_Swapped(item_type) == IF item_type = "paper" THEN 10 ELSE 5

\* points = 5 if item_type == 'paper' else 10
Points(item_type) == IF item_type = "paper" THEN 5 ELSE 10

\* the credit ignores the item type
DepositNewBalance_Flat(c) == user[c].balance + 10

\* new_balance = user['balance'] + points
DepositNewBalance(c) == user[c].balance + Points(req[c].arg)

\* only a body without item_type is turned away
InvalidItemType_MissingOnly(item_type) == item_type = ""

\* if item_type not in ['paper', 'plastic']
InvalidItemType(item_type) == item_type \notin {"paper", "plastic"}

\* session check, item type check and the SELECT of the user
api_user_deposit(c, item_type) ==
  /\ Start(c)
  /\ IF NotLoggedIn(c)
     THEN Respond(c, FALSE, "Not logged in", 0)
     ELSE IF InvalidItemType(item_type)
     THEN Respond(c, FALSE, "Invalid item type", 0)
     ELSE Accept(c, "dep_update", "deposit", item_type, UserById(session[c]), NoRow)
  /\ UNCHANGED <<db, wdb, writer, session>>

\* UPDATE users SET balance = ? WHERE id = ?
dep_update(c) ==
  /\ pc[c] = "dep_update"
  /\ Write(c, SetBalance(wdb, session[c], DepositNewBalance(c)))
  /\ Goto(c, "dep_insert")
  /\ UNCHANGED <<session, nreq>>

\* INSERT INTO deposits (...) VALUES (?, ?, ?, 'completed', 'valid')
dep_insert(c) ==
  /\ pc[c] = "dep_insert"
  /\ Write(c, [wdb EXCEPT !.deposits = InsertRow(@,
        [user_id |-> session[c], item_type |-> req[c].arg,
         points_earned |-> Points(req[c].arg), status |-> "completed"])])
  /\ Goto(c, "dep_commit")
  /\ UNCHANGED <<session, nreq>>

dep_commit(c) ==
  /\ pc[c] = "dep_commit"
  /\ Commit(c)
  /\ Goto(c, "dep_log")
  /\ UNCHANGED <<session, nreq>>

dep_log(c) ==
  /\ pc[c] = "dep_log"
  /\ log_event(c)
  /\ Respond(c, TRUE, "Successfully deposited", DepositNewBalance(c))
  /\ UNCHANGED <<session, nreq>>

\* ----------------------------------------------------- api_user_redeem
\* new_balance = user['balance'] - reward['cost']
RedeemNewBalance(c) == user[c].balance - reward[c].cost
\* the stock is written back as read
RedeemNewStock_Same(c) == reward[c].stock

\* new_stock = reward['stock'] - 1
RedeemNewStock(c) == reward[c].stock - 1

\* only a negative stock counts as sold out
OutOfStock_NegativeOnly(rrow) == rrow.stock < 0

\* if reward['stock'] <= 0
OutOfStock(rrow) == rrow.stock <= 0
\* the balance is compared with the stock column
InsufficientPoints_Stock(urow, rrow) == urow.balance < rrow.stock

\* if user['balance'] < reward['cost']
InsufficientPoints(urow, rrow) == urow.balance < rrow.cost

\* session check, SELECT of the reward and the two checks on it
api_user_redeem(c, reward_name) ==
  /\ Start(c)
  /\ LET row == ActiveRewardByName(reward_name) IN
       IF NotLoggedIn(c)
       THEN Respond(c, FALSE, "Not logged in", 0)
       ELSE IF row.id = None
       THEN Respond(c, FALSE, "Reward not available", 0)
       ELSE IF OutOfStock(row)
       THEN Respond(c, FALSE, "Reward out of stock", 0)
       ELSE Accept(c, "red_select_user", "redeem", reward_name, NoRow, row)
  /\ UNCHANGED <<db, wdb, writer, session>>

\* SELECT of the user and the balance check
red_select_user(c) ==
  /\ pc[c] = "red_select_user"
  /\ LET row == UserById(session[c]) IN
       IF InsufficientPoints(row, reward[c])
       THEN Respond(c, FALSE, "Insufficient points", 0)
       ELSE Fetch(c, "red_update_user", row, reward[c])
  /\ UNCHANGED <<db, wdb, writer, session, nreq>>

\* UPDATE users SET balance = ? WHERE id = ?
red_update_user(c) ==
  /\ pc[c] = "red_update_user"
  /\ Write(c, SetBalance(wdb, session[c], RedeemNewBalance(c)))
  /\ Goto(c, "red_update_reward")
  /\ UNCHANGED <<session, nreq>>

\* UPDATE rewards SET stock = ? WHERE id = ?
red_update_reward(c) ==
  /\ pc[c] = "red_update_reward"
  /\ Write(c, [wdb EXCEPT !.rewards[reward[c].id].stock = RedeemNewStock(c)])
  /\ Goto(c, "red_insert")
  /\ UNCHANGED <<session, nreq>>

\* INSERT INTO redeems (user_id, reward_id, points_spent)
red_insert(c) ==
  /\ pc[c] = "red_insert"
  /\ Write(c, [wdb EXCEPT !.redeems = InsertRow(@,
        [user_id |-> session[c], reward_id |-> reward[c].id,
         points_spent |-> reward[c].cost])])
  /\ Goto(c, "red_commit")
  /\ UNCHANGED <<session, nreq>>

red_commit(c) ==
  /\ pc[c] = "red_commit"
  /\ Commit(c)
  /\ Goto(c, "red_log")
  /\ UNCHANGED <<session, nreq>>

red_log(c) ==
  /\ pc[c] = "red_log"
  /\ log_event(c)
  /\ Respond(c, TRUE, "Successfully redeemed", RedeemNewBalance(c))
  /\ UNCHANGED <<session, nreq>>

\* ----------------------------------------------------- api_admin_login
\* ok: the posted email and password are ADMIN_EMAIL and ADMIN_PASSWORD
api_admin_login(c, ok) ==
  /\ Start(c)
  /\ IF ok
     THEN /\ admin' = [admin EXCEPT ![c] = TRUE]
          /\ pc' = [pc EXCEPT ![c] = "login_log"]
          /\ req' = [req EXCEPT ![c] = [op |-> "admin_login", arg |-> None]]
          /\ resp' = NoResp
          /\ UNCHANGED <<user, reward, backend, now, reader>>
     ELSE Respond(c, FALSE, "Invalid credentials", 0)
  /\ UNCHANGED <<db, wdb, writer, session>>

\* log_event('admin_login', ...) and the response
login_log(c) ==
  /\ pc[c] = "login_log"
  /\ log_event(c)
  /\ Respond(c, TRUE, "redirect", 0)
  /\ UNCHANGED <<session, nreq>>

\* --------------------------------------------------- api_admin_rewards
\* the name a POST may carry that no default reward has
NewRewardName == RewardNames[NumRewards + 1]
\* POST bodies: no name, the name of a default reward, a new name
CreateNames == {"", RewardNames[1], NewRewardName}
\* cost and stock of a POST body: both absent (data.get(..., 0)) or both given
CreatePrices == {[cost |-> 0, stock |-> 0], [cost |-> 5, stock |-> 2]}
\* names a redeem request may carry once the catalog can grow
CatalogNames == RequestNames \cup {NewRewardName}
\* ids a PUT or DELETE body may carry: none, the first row, and the id the
\* next created row gets (no row has it before)
BodyIds == {None, 1, NumRewards + 1}

\* the value a PUT body carries for a field it supplies
PutValue == [display_name |-> "Renamed", image_filename |-> "renamed",
             cost |-> 5, stock |-> 2, is_active |-> FALSE]
\* PUT bodies: no updatable key, one key, cost with stock, all five keys
PutKeySets ==
  {{}, DOMAIN PutValue, {"cost", "stock"}} \cup {{f} : f \in DOMAIN PutValue}
PutBodies == {[f \in S |-> PutValue[f]] : S \in PutKeySets}

\* the constraint looks at the active rows only
NameTaken_ActiveOnly(name) ==
  \E r \in DOMAIN wdb.rewards :
    wdb.rewards[r].name = name /\ wdb.rewards[r].is_active

\* name TEXT UNIQUE NOT NULL, as the writing connection sees the table
NameTaken(name) == \E r \in DOMAIN wdb.rewards : wdb.rewards[r].name = name

\* INSERT INTO rewards (name, display_name, image_filename, cost, stock)
NewReward(body) ==
  [id |-> Len(wdb.rewards) + 1, name |-> body.name,
   display_name |-> body.name, image_filename |-> body.name,
   cost |-> body.cost, stock |-> body.stock,
   is_active |-> TRUE, updated_at |-> now]

\* a stock the body does not supply is written as 0
ApplyUpdate_ResetStock(row, data) ==
  [id |-> row.id, name |-> row.name,
   display_name |-> IF "display_name" \in DOMAIN data
                    THEN data["display_name"] ELSE row.display_name,
   image_filename |-> IF "image_filename" \in DOMAIN data
                      THEN data["image_filename"] ELSE row.image_filename,
   cost |-> IF "cost" \in DOMAIN data THEN data["cost"] ELSE row.cost,
   stock |-> IF "stock" \in DOMAIN data THEN data["stock"] ELSE 0,
   is_active |-> IF "is_active" \in DOMAIN data
                 THEN data["is_active"] ELSE row.is_active,
   updated_at |-> now]

\* UPDATE rewards SET <supplied keys>, updated_at = CURRENT_TIMESTAMP
ApplyUpdate(row, data) ==
  [id |-> row.id, name |-> row.name,
   display_name |-> IF "display_name" \in DOMAIN data
                    THEN data["display_name"] ELSE row.display_name,
   image_filename |-> IF "image_filename" \in DOMAIN data
                      THEN data["image_filename"] ELSE row.image_filename,
   cost |-> IF "cost" \in DOMAIN data THEN data["cost"] ELSE row.cost,
   stock |-> IF "stock" \in DOMAIN data THEN data["stock"] ELSE row.stock,
   is_active |-> IF "is_active" \in DOMAIN data
                 THEN data["is_active"] ELSE row.is_active,
   updated_at |-> now]

\* request.method == 'POST'
api_admin_rewards_POST(c, name, cost, stock) ==
  /\ Start(c)
  /\ IF ~admin[c]
     THEN Respond(c, FALSE, "Not authenticated", 0)
     ELSE IF name = ""
     THEN Respond(c, FALSE, "Reward name required", 0)
     ELSE Accept(c, "rw_insert", "reward_create",
                 [name |-> name, cost |-> cost, stock |-> stock], NoRow, NoRow)
  /\ UNCHANGED <<db, wdb, writer, session>>

\* the INSERT: name is UNIQUE, sqlite3.IntegrityError is caught
rw_insert(c) ==
  /\ pc[c] = "rw_insert"
  /\ writer \in {None, c}
  /\ IF NameTaken(req[c].arg.name)
     THEN /\ Respond(c, FALSE, "Reward name already exists", 0)
          /\ UNCHANGED <<db, wdb, writer>>
     ELSE /\ Write(c, [wdb EXCEPT !.rewards = Append(@, NewReward(req[c].arg))])
          /\ Goto(c, "rw_commit")
  /\ UNCHANGED <<session, nreq>>

\* request.method == 'PUT'
api_admin_rewards_PUT(c, reward_id, data) ==
  /\ Start(c)
  /\ IF ~admin[c]
     THEN Respond(c, FALSE, "Not authenticated", 0)
     ELSE IF reward_id = None
     THEN Respond(c, FALSE, "Reward ID required", 0)
     ELSE IF DOMAIN data = {}
     THEN Respond(c, FALSE, "No fields to update", 0)
     ELSE Accept(c, "rw_update", "reward_update",
                 [id |-> reward_id, data |-> data], NoRow, NoRow)
  /\ UNCHANGED <<db, wdb, writer, session>>

\* UPDATE rewards SET ... WHERE id = ?  (no row: nothing is updated)
rw_update(c) ==
  /\ pc[c] = "rw_update"
  /\ LET id == req[c].arg.id IN
       Write(c, IF id \in DOMAIN wdb.rewards
                THEN [wdb EXCEPT !.rewards[id] = ApplyUpdate(@, req[c].arg.data)]
                ELSE wdb)
  /\ Goto(c, "rw_commit")
  /\ UNCHANGED <<session, nreq>>

\* request.method == 'DELETE'
api_admin_rewards_DELETE(c, reward_id) ==
  /\ Start(c)
  /\ IF ~admin[c]
     THEN Respond(c, FALSE, "Not authenticated", 0)
     ELSE IF reward_id = None
     THEN Respond(c, FALSE, "Reward ID required", 0)
     ELSE Accept(c, "rw_delete", "reward_delete", [id |-> reward_id],
                 NoRow, NoRow)
  /\ UNCHANGED <<db, wdb, writer, session>>

\* UPDATE rewards SET is_active = 0 WHERE id = ?
rw_delete(c) ==
  /\ pc[c] = "rw_delete"
  /\ LET id == req[c].arg.id IN
       Write(c, IF id \in DOMAIN wdb.rewards
                THEN [wdb EXCEPT !.rewards[id].is_active = FALSE]
                ELSE wdb)
  /\ Goto(c, "rw_commit")
  /\ UNCHANGED <<session, nreq>>

rw_commit(c) ==
  /\ pc[c] = "rw_commit"
  /\ Commit(c)
  /\ Goto(c, "rw_log")
  /\ UNCHANGED <<session, nreq>>

\* log_event('reward_create' | 'reward_update' | 'reward_delete', ...)
rw_log(c) ==
  /\ pc[c] = "rw_log"
  /\ log_event(c)
  /\ Respond(c, TRUE,
             IF req[c].op = "reward_create" THEN "Reward created successfully"
             ELSE IF req[c].op = "reward_update" THEN "Reward updated successfully"
             ELSE "Reward deleted successfully", 0)
  /\ UNCHANGED <<session, nreq>>

\* ------------------------------------------------------------- failures
WritePcs == {"rfid_update", "rfid_commit", "reg_insert", "reg_commit",
             "dep_update", "dep_insert", "dep_commit",
             "red_update_user", "red_update_reward", "red_insert", "red_commit",
             "rw_insert", "rw_update", "rw_delete", "rw_commit"}
LogPcs == {"rfid_log", "reg_log", "dep_log", "red_log", "login_log", "rw_log"}

\* A statement of the handler raises: sqlite3.OperationalError ("database is
\* locked") when another connection kept the write lock past the busy
\* timeout, or any failure while the handler's own transaction is open.  The
\* handler catches nothing, the connection is dropped without commit, and
\* SQLite rolls the open transaction back.
Abort(c) ==
  /\ pc[c] \in WritePcs
  /\ writer # None
  /\ IF writer = c
     THEN writer' = None /\ wdb' = db
     ELSE UNCHANGED <<writer, wdb>>
  /\ db' = db
  /\ Respond(c, FALSE, "server error", 0)
  /\ UNCHANGED <<session, nreq>>

\* log_event raises "database is locked": the handler's own commit is done,
\* the response is a server error.
LogFail(c) ==
  /\ pc[c] \in LogPcs
  /\ writer # None
  /\ Respond(c, FALSE, "server error", 0)
  /\ UNCHANGED <<db, wdb, writer, session, nreq>>

\* ------------------------------------------------------- specification
Step(c) ==
  \/ rfid_update(c) \/ rfid_commit(c) \/ rfid_log(c)
  \/ reg_insert(c) \/ reg_commit(c) \/ reg_log(c)
  \/ dep_update(c) \/ dep_insert(c) \/ dep_commit(c) \/ dep_log(c)
  \/ red_select_user(c) \/ red_update_user(c) \/ red_update_reward(c)
  \/ red_insert(c) \/ red_commit(c) \/ red_log(c)

Request(c) ==
  \/ \E uid \in Cards \cup {None} : api_rfid_read(c, uid)
  \/ \E uid \in Cards \cup {None} : api_user_register(c, uid)
  \/ \E item_type \in ItemTypes : api_user_deposit(c, item_type)
  \/ \E reward_name \in RequestNames : api_user_redeem(c, reward_name)

Next == \E c \in Clients : Request(c) \/ Step(c) \/ Abort(c) \/ LogFail(c)

Spec == Init /\ [][Next]_vars

\* The catalog holds the last unit of every reward.
InitLastUnit == InitWith(1)

SpecLastUnit == InitLastUnit /\ [][Next]_vars

\* Requests served one at a time: a handler starts only when no other handler
\* is running, and no statement fails.
Quiescent == \A c \in Clients : pc[c] = "idle"

SeqRequest(c) == Quiescent /\ Request(c)

NextSeq == \E c \in Clients : SeqRequest(c) \/ Step(c)

SpecSeq == Init /\ [][NextSeq]_vars

\* The catalog under administration: client 1 has logged in as admin; the
\* clients deposit, redeem and maintain the rewards table.
InitCatalog ==
  /\ db = StartDb(InitStock)
  /\ wdb = StartDb(InitStock)
  /\ writer = None
  /\ session = [c \in Clients |-> InitSession(c)]
  /\ pc = [c \in Clients |-> "idle"]
  /\ req = [c \in Clients |-> NoReq]
  /\ user = [c \in Clients |-> NoRow]
  /\ reward = [c \in Clients |-> NoRow]
  /\ resp = NoResp
  /\ nreq = 0
  /\ admin = [c \in Clients |-> c = 1]
  /\ backend = [c \in Clients |-> FALSE]
  /\ now = 0
  /\ reader = ReaderStart

CatalogStep(c) ==
  \/ login_log(c)
  \/ rw_insert(c) \/ rw_update(c) \/ rw_delete(c) \/ rw_commit(c) \/ rw_log(c)
  \/ dep_update(c) \/ dep_insert(c) \/ dep_commit(c) \/ dep_log(c)
  \/ red_select_user(c) \/ red_update_user(c) \/ red_update_reward(c)
  \/ red_insert(c) \/ red_commit(c) \/ red_log(c)

CatalogRequest(c) ==
  \/ \E ok \in BOOLEAN : api_admin_login(c, ok)
  \/ \E name \in CreateNames, price \in CreatePrices :
       api_admin_rewards_POST(c, name, price.cost, price.stock)
  \/ \E reward_id \in BodyIds, data \in PutBodies :
       api_admin_rewards_PUT(c, reward_id, data)
  \/ \E reward_id \in BodyIds : api_admin_rewards_DELETE(c, reward_id)
  \/ \E item_type \in ItemTypes : api_user_deposit(c, item_type)
  \/ \E reward_name \in CatalogNames : api_user_redeem(c, reward_name)

\* Handlers interleave statement by statement; no statement fails.
NextCatalog == \E c \in Clients : CatalogRequest(c) \/ CatalogStep(c)

SpecCatalog == InitCatalog /\ [][NextCatalog]_vars

\* ------------------------------------------------------------ the clock
\* days that pass in one step of the clock: a month
TickDays == {30, 31}

\* datetime.now() moves on by d days
Tick(d) ==
  /\ now + d <= MaxTime
  /\ now' = now + d
  /\ UNCHANGED <<db, wdb, writer, session, pc, req, user, reward, resp, nreq,
                 admin, backend, reader>>

\* The users table as the run finds it: is_active is a column of the table
\* that no statement of app.py writes after the INSERT; whoever administers
\* the database may have set it to 0 for any of the registered accounts.
InitAccounts ==
  /\ \E active \in [1..NumRegistered -> BOOLEAN] :
       /\ db = [StartDb(InitStock) EXCEPT
                  !.users = [u \in 1..NumRegistered |->
                               [@[u] EXCEPT !.is_active = active[u]]]]
       /\ wdb = db
  /\ writer = None
  /\ session = [c \in Clients |-> InitSession(c)]
  /\ pc = [c \in Clients |-> "idle"]
  /\ req = [c \in Clients |-> NoReq]
  /\ user = [c \in Clients |-> NoRow]
  /\ reward = [c \in Clients |-> NoRow]
  /\ resp = NoResp
  /\ nreq = 0
  /\ admin = [c \in Clients |-> FALSE]
  /\ backend = [c \in Clients |-> FALSE]
  /\ now = 0
  /\ reader = ReaderStart

NextAccounts ==
  \/ \E c \in Clients : Request(c) \/ Step(c) \/ Abort(c) \/ LogFail(c)
  \/ \E d \in TickDays : Tick(d)

SpecAccounts == InitAccounts /\ [][NextAccounts]_vars

\* ------------------------------------------- admin_backend.py sessions
\* admin_login of admin_backend.py; ok: the posted email and password match
\* an entry of ADMIN_USERS.  The backend is a Flask app of its own, with its
\* own secret key and session.
admin_login(c, ok) ==
  /\ nreq < MaxRequests
  /\ nreq' = nreq + 1
  /\ backend' = [backend EXCEPT ![c] = IF ok THEN TRUE ELSE @]
  /\ resp' = [client |-> c, success |-> ok,
              message |-> IF ok THEN "Login successful" ELSE "Invalid credentials",
              new_balance |-> 0]
  /\ UNCHANGED <<db, wdb, writer, session, pc, req, user, reward, admin, now,
                 reader>>

\* admin_logout of admin_backend.py: session.clear()
admin_logout(c) ==
  /\ nreq < MaxRequests
  /\ nreq' = nreq + 1
  /\ backend' = [backend EXCEPT ![c] = FALSE]
  /\ resp' = [client |-> c, success |-> TRUE,
              message |-> "Logged out successfully", new_balance |-> 0]
  /\ UNCHANGED <<db, wdb, writer, session, pc, req, user, reward, admin, now,
                 reader>>

\* Fresh terminals: no cookie yet, every session Anonymous.
InitAnonymous ==
  /\ db = StartDb(InitStock)
  /\ wdb = StartDb(InitStock)
  /\ writer = None
  /\ session = [c \in Clients |-> None]
  /\ pc = [c \in Clients |-> "idle"]
  /\ req = [c \in Clients |-> NoReq]
  /\ user = [c \in Clients |-> NoRow]
  /\ reward = [c \in Clients |-> NoRow]
  /\ resp = NoResp
  /\ nreq = 0
  /\ admin = [c \in Clients |-> FALSE]
  /\ backend = [c \in Clients |-> FALSE]
  /\ now = 0
  /\ reader = ReaderStart

NextSession ==
  \E c \in Clients :
    \/ \E uid \in Cards \cup {None} : api_rfid_read(c, uid)
    \/ rfid_update(c) \/ rfid_commit(c) \/ rfid_log(c)
    \/ \E ok \in BOOLEAN : admin_login(c, ok)
    \/ admin_logout(c)

SpecSession == InitAnonymous /\ [][NextSession]_vars

\* Fresh terminals in front of the whole kiosk: every session starts
\* Anonymous and any request may arrive.
SpecAnonymous == InitAnonymous /\ [][Next]_vars

\* -------------------------------------------------------- RFIDReader.run
\* the UID is remembered only when the server answered
NextLastUid_OnSuccess(uid, ok) == IF ok THEN uid ELSE reader.last_uid

\* last_uid = uid, after send_to_server whatever it returned
NextLastUid(uid, ok) == uid

\* One iteration of the loop: read_rfid() returns the parse of the line
\* `data`; when the UID is to be forwarded send_to_server posts it (ok: the
\* server answered) and last_uid and last_read_time are set.
run(data, ok) ==
  /\ reader.reads < MaxReads
  /\ LET uid == parse_uid(data) IN
       reader' =
         IF Forwards(uid)
         THEN [reader EXCEPT
                 !.raw = data, !.uid = uid, !.reads = @ + 1,
                 !.sent = Append(@, [uid |-> uid, at |-> reader.time,
                                     ok |-> ok, n |-> reader.reads + 1]),
                 !.last_uid = NextLastUid(uid, ok),
                 !.last_read_time = reader.time]
         ELSE [reader EXCEPT !.raw = data, !.uid = uid, !.reads = @ + 1]
  /\ UNCHANGED <<db, wdb, writer, session, pc, req, user, reward, resp, nreq,
                 admin, backend, now>>

\* time.sleep(0.1) and the blocking readline: time.time() moves on
sleep ==
  /\ reader.time < MaxSeconds
  /\ reader' = [reader EXCEPT !.time = @ + 1]
  /\ UNCHANGED <<db, wdb, writer, session, pc, req, user, reward, resp, nreq,
                 admin, backend, now>>

NextReader ==
  \/ \E data \in RawReads, ok \in BOOLEAN : run(data, ok)
  \/ sleep

SpecReader == Init /\ [][NextReader]_vars

\* ================================================================ claims
UserIds == 1..Len(db.users)

RECURSIVE SumEarned(_, _, _)
\* points_earned summed over the completed deposits of account u among the
\* first n rows
SumEarned(rows, u, n) ==
  IF n = 0 THEN 0
  ELSE SumEarned(rows, u, n - 1) +
       (IF rows[n].user_id = u /\ rows[n].status = "completed"
        THEN rows[n].points_earned ELSE 0)

RECURSIVE SumSpent(_, _, _)
\* points_spent summed over the redemptions of account u among the first n rows
SumSpent(rows, u, n) ==
  IF n = 0 THEN 0
  ELSE SumSpent(rows, u, n - 1) +
       (IF rows[n].user_id = u THEN rows[n].points_spent ELSE 0)

Earned(u) == SumEarned(db.deposits, u, Len(db.deposits))
Spent(u) == SumSpent(db.redeems, u, Len(db.redeems))

\* number of committed RedemptionRecords of reward r
RedeemCount(r) ==
  Cardinality({i \in 1..Len(db.redeems) : db.redeems[i].reward_id = r})

\* award table of the configuration
AwardTable(item_kind) ==
  IF item_kind = "paper" THEN POINTS_PER_PAPER ELSE POINTS_PER_PLASTIC

\* C1: under every interleaving of redeem (and deposit) requests, no committed
\* state has a reward with stock < 0 or an account with balance < 0.
C1_NonNegative ==
  /\ \A r \in RewardIds : db.rewards[r].stock >= 0
  /\ \A u \in UserIds : db.users[u].balance >= 0

\* two redeems raced for one reward and both committed; stock is at 0
C1_Witness ==
  \E r \in RewardIds : db.rewards[r].stock = 0 /\ RedeemCount(r) >= 2

\* C2: of the concurrent redeems against a reward with stock = 1 exactly one
\* succeeds: at most one RedemptionRecord is ever appended for that reward.
C2_ExactlyOneSucceeds == \A r \in RewardIds : RedeemCount(r) <= 1

\* C3: concurrent deposits and redeems on one account are linearizable: once
\* all requests have returned, the balance is the one a sequential run of the
\* committed operations gives, the awards credited minus the costs debited.
C3_Linearizable ==
  Quiescent => \A u \in UserIds : db.users[u].balance = Earned(u) - Spent(u)

\* C4: when each operation runs to completion before the next starts, every
\* account's balance equals the points_awarded of its completed DepositRecords
\* minus the points_spent of its RedemptionRecords.
C4_Reconciled == \A u \in UserIds : db.users[u].balance + Spent(u) = Earned(u)

\* an account with deposits and a redemption behind it and points left
C4_Witness ==
  \E u \in UserIds : Spent(u) > 0 /\ db.users[u].balance > 0

\* the step appends a RedemptionRecord of account u for reward r
RedeemAppended(u, r) ==
  /\ Len(db'.redeems) = Len(db.redeems) + 1
  /\ db'.redeems[Len(db'.redeems)].user_id = u
  /\ db'.redeems[Len(db'.redeems)].reward_id = r

\* the step appends a completed DepositRecord of account u
DepositAppended(u) ==
  /\ Len(db'.deposits) = Len(db.deposits) + 1
  /\ db'.deposits[Len(db'.deposits)].user_id = u
  /\ db'.deposits[Len(db'.deposits)].status = "completed"

\* C5: a redeem is all-or-nothing in the committed state: a step that makes a
\* RedemptionRecord visible also lowers that reward's stock by 1 and that
\* account's balance by the cost, and a step that lowers a stock by 1 makes a
\* RedemptionRecord of that reward visible.
C5_RedeemAllOrNothing ==
  [][\A r \in RewardIds :
       /\ \A u \in UserIds :
            RedeemAppended(u, r) =>
              /\ db'.rewards[r].stock = db.rewards[r].stock - 1
              /\ db'.users[u].balance = db.users[u].balance - db.rewards[r].cost
       /\ db'.rewards[r].stock = db.rewards[r].stock - 1 =>
            \E u \in UserIds : RedeemAppended(u, r)]_vars

\* C6: a deposit is all-or-nothing in the committed state: a step that makes
\* a completed DepositRecord visible also raises that account's balance by the
\* record's points_awarded.
C6_DepositAllOrNothing ==
  [][\A u \in UserIds :
       DepositAppended(u) =>
         db'.users[u].balance =
           db.users[u].balance + db'.deposits[Len(db'.deposits)].points_earned]_vars

\* C7: run alone, a redeem by a bound account with balance >= cost of an
\* active reward with stock >= 1 goes through every check, its commit leaves
\* balance = old balance - cost, stock = old stock - 1 and one new
\* RedemptionRecord with points_spent = cost, and the response reports success
\* with new_balance equal to the stored balance.
C7_RedeemSucceeds ==
  [][\A c \in Clients :
       /\ \A name \in RequestNames :
            ( /\ api_user_redeem(c, name)
              /\ session[c] # None
              /\ \E r \in RewardIds : /\ db.rewards[r].name = name
                                      /\ db.rewards[r].is_active
                                      /\ db.rewards[r].stock >= 1 )
            => pc'[c] = "red_select_user"
       /\ ( /\ red_select_user(c)
            /\ db.users[session[c]].balance >= db.rewards[reward[c].id].cost )
          => pc'[c] = "red_update_user"
       /\ pc[c] \in {"red_update_user", "red_update_reward", "red_insert"}
          => /\ db' = db
             /\ pc'[c] \notin {"idle", pc[c]}
       /\ red_commit(c) =>
            LET u == session[c]
                r == reward[c].id
            IN /\ db'.users[u].balance = db.users[u].balance - db.rewards[r].cost
               /\ db'.rewards[r].stock = db.rewards[r].stock - 1
               /\ db'.redeems = Append(db.redeems,
                    [user_id |-> u, reward_id |-> r,
                     points_spent |-> db.rewards[r].cost])
       /\ red_log(c) =>
            /\ resp'.client = c /\ resp'.success
            /\ resp'.new_balance = db'.users[session[c]].balance]_vars

\* a redeem has returned success and its RedemptionRecord is stored
C7_Witness ==
  \E c \in Clients :
    /\ pc[c] = "idle"
    /\ resp.client = c
    /\ resp.success /\ resp.message = "Successfully redeemed"
    /\ Len(db.redeems) >= 1

\* C8: run alone, a deposit of a recognized item kind by a bound account
\* raises the balance by award_table[item_kind] (paper 5, plastic 10), appends
\* one DepositRecord with that points_awarded and status completed, and
\* returns the new balance.
C8_DepositCredits ==
  [][\A c \in Clients :
       /\ \A item_kind \in {"paper", "plastic"} :
            (api_user_deposit(c, item_kind) /\ session[c] # None)
            => pc'[c] = "dep_update"
       /\ pc[c] \in {"dep_update", "dep_insert"}
          => /\ db' = db
             /\ pc'[c] \notin {"idle", pc[c]}
       /\ dep_commit(c) =>
            LET u == session[c]
                pts == AwardTable(req[c].arg)
            IN /\ db'.users[u].balance = db.users[u].balance + pts
               /\ db'.deposits = Append(db.deposits,
                    [user_id |-> u, item_type |-> req[c].arg,
                     points_earned |-> pts, status |-> "completed"])
       /\ dep_log(c) =>
            /\ resp'.client = c /\ resp'.success
            /\ resp'.new_balance = db'.users[session[c]].balance]_vars

\* a paper deposit on an empty account has returned the balance 5
C8_Witness ==
  \E c \in Clients :
    /\ pc[c] = "idle"
    /\ resp.client = c
    /\ resp.success /\ resp.message = "Successfully deposited"
    /\ resp.new_balance = POINTS_PER_PAPER
    /\ db.deposits # <<>>

\* C9: a redeem of an active reward whose stock is <= 0 fails with OutOfStock
\* and changes nothing: the committed and the pending database are the same
\* after the call as before, and the handler has returned.
C9_OutOfStock ==
  [][\A c \in Clients, name \in RequestNames :
       ( /\ api_user_redeem(c, name)
         /\ session[c] # None
         /\ \E r \in RewardIds : /\ db.rewards[r].name = name
                                 /\ db.rewards[r].is_active
                                 /\ db.rewards[r].stock <= 0 )
       => /\ resp' = [client |-> c, success |-> FALSE,
                      message |-> "Reward out of stock", new_balance |-> 0]
          /\ pc'[c] = "idle"
          /\ db' = db /\ wdb' = wdb]_vars

\* a redeem was answered with OutOfStock for a reward that has sold out
C9_Witness ==
  \E c \in Clients :
    /\ pc[c] = "idle"
    /\ resp.client = c /\ resp.message = "Reward out of stock"
    /\ \E r \in RewardIds : db.rewards[r].stock = 0 /\ RedeemCount(r) >= 1

\* C10: a redeem by an account whose balance is less than the reward's cost
\* fails with InsufficientPoints and mutates nothing: neither the reward
\* lookup nor the balance check changes the database.
C10_InsufficientPoints ==
  [][\A c \in Clients :
       /\ \A name \in RequestNames : api_user_redeem(c, name) => db' = db /\ wdb' = wdb
       /\ ( /\ red_select_user(c)
            /\ db.users[session[c]].balance < db.rewards[reward[c].id].cost )
          => /\ resp' = [client |-> c, success |-> FALSE,
                         message |-> "Insufficient points", new_balance |-> 0]
             /\ pc'[c] = "idle"
             /\ db' = db /\ wdb' = wdb]_vars

\* a redeem was answered with InsufficientPoints by an account that holds
\* some points, fewer than any reward costs
C10_Witness ==
  \E c \in Clients :
    /\ pc[c] = "idle"
    /\ resp.client = c /\ resp.message = "Insufficient points"
    /\ session[c] # None
    /\ db.users[session[c]].balance = POINTS_PER_PAPER

\* C12: a deposit whose item type is not a recognised category, a request
\* body without item_type included, fails with InvalidItemKind ('Invalid item
\* type') and changes nothing: no balance, no deposit row, nothing pending.
C12_InvalidItemKind ==
  [][\A c \in Clients, item_type \in ItemTypes :
       ( /\ api_user_deposit(c, item_type)
         /\ session[c] # None
         /\ item_type \notin {"paper", "plastic"} )
       => /\ resp' = [client |-> c, success |-> FALSE,
                      message |-> "Invalid item type", new_balance |-> 0]
          /\ pc'[c] = "idle"
          /\ db' = db /\ wdb' = wdb]_vars

\* a deposit was answered with InvalidItemKind on a bound terminal, after an
\* earlier deposit of a recognised item had been credited
C12_Witness ==
  \E c \in Clients :
    /\ pc[c] = "idle"
    /\ session[c] # None
    /\ resp.client = c /\ resp.message = "Invalid item type"
    /\ db.deposits # <<>>

\* C15: a scan of a card that has no account creates none: the answer is
\* Unknown (action register), and the database, the pending writes and every
\* session binding are left as they were, so a repeated scan of the same card
\* meets the same state and gets the same answer.
C15_UnknownCreatesNothing ==
  [][\A c \in Clients, uid \in Cards :
       ( /\ api_rfid_read(c, uid)
         /\ \A i \in 1..Len(db.users) : db.users[i].rfid_uid # uid )
       => /\ resp' = [client |-> c, success |-> TRUE,
                      message |-> "register", new_balance |-> 0]
          /\ pc'[c] = "idle"
          /\ db' = db /\ wdb' = wdb
          /\ session' = session]_vars

\* an unregistered card was answered with Unknown after at least one earlier
\* request, and the accounts are the ones of the start
C15_Witness ==
  \E c \in Clients :
    /\ pc[c] = "idle"
    /\ resp.client = c /\ resp.message = "register"
    /\ nreq >= 2
    /\ Len(db.users) = NumRegistered

\* no two rows of the users table carry the same rfid_uid
CardsUnique(rows) ==
  \A i, j \in 1..Len(rows) : i # j => rows[i].rfid_uid # rows[j].rfid_uid

\* C16: rfid_uid is unique across the accounts in every reachable state, for
\* every interleaving of registrations, and a registration of a card that
\* already has an account fails and creates no account.
C16_CardUnique ==
  /\ CardsUnique(db.users)
  /\ [][/\ CardsUnique(db'.users)
        /\ CardsUnique(wdb'.users)
        /\ \A c \in Clients, uid \in Cards :
             ( /\ api_user_register(c, uid)
               /\ \E i \in 1..Len(db.users) : db.users[i].rfid_uid = uid )
             => /\ resp' = [client |-> c, success |-> FALSE,
                            message |-> "RFID already registered",
                            new_balance |-> 0]
                /\ pc'[c] = "idle"
                /\ db' = db /\ wdb' = wdb]_vars

\* two registrations of the same new card ran concurrently: one is committed
\* and the other is about to execute its INSERT
C16_Witness ==
  \E c \in Clients :
    /\ pc[c] = "reg_insert"
    /\ Len(db.users) > NumRegistered
    /\ \E i \in 1..Len(db.users) : db.users[i].rfid_uid = req[c].arg

\* C17: the session of a terminal names at most one account; a scan of a
\* known card binds the scanning terminal to the account of that card (also
\* when it was bound to another), a scan of an unknown card and every step
\* that is not a scan leave every binding as it was.
C17_BoundToLastKnownScan ==
  [][/\ \A c \in Clients : session'[c] \in {None} \cup (1..Len(db'.users))
     /\ \A c \in Clients, uid \in Cards \cup {None} :
          api_rfid_read(c, uid) =>
            IF \E i \in 1..Len(db.users) : db.users[i].rfid_uid = uid
            THEN \E i \in 1..Len(db.users) :
                   /\ db.users[i].rfid_uid = uid
                   /\ session' = [session EXCEPT ![c] = db.users[i].id]
            ELSE session' = session
     /\ (\A c \in Clients, uid \in Cards \cup {None} : ~api_rfid_read(c, uid))
          => session' = session]_vars

\* a terminal bound to one account has scanned the card of another account
\* and is bound to that one
C17_Witness ==
  \E c \in Clients :
    /\ pc[c] = "rfid_update"
    /\ session[c] # InitSession(c)
    /\ session[c] = user[c].id

\* C11: a redeem that names a reward which does not exist or has been
\* soft-deleted (is_active = 0) fails with RewardNotFound ('Reward not
\* available') and changes nothing, whatever the stock of the reward and the
\* balance of the account.
C11_RewardNotFound ==
  [][\A c \in Clients, name \in CatalogNames :
       ( /\ api_user_redeem(c, name)
         /\ session[c] # None
         /\ ~\E r \in DOMAIN db.rewards : /\ db.rewards[r].name = name
                                          /\ db.rewards[r].is_active )
       => /\ resp' = [client |-> c, success |-> FALSE,
                      message |-> "Reward not available", new_balance |-> 0]
          /\ pc'[c] = "idle"
          /\ db' = db /\ wdb' = wdb]_vars

\* a redeem was answered with RewardNotFound while the only reward the
\* account could pay for, in stock, is a soft-deleted one
C11_Witness ==
  \E c \in Clients :
    /\ pc[c] = "idle"
    /\ session[c] # None
    /\ resp.client = c /\ resp.message = "Reward not available"
    /\ \E r \in DOMAIN db.rewards :
         /\ ~db.rewards[r].is_active
         /\ db.rewards[r].stock > 0
         /\ db.users[session[c]].balance >= db.rewards[r].cost
    /\ \A r \in DOMAIN db.rewards :
         db.rewards[r].is_active =>
           db.users[session[c]].balance < db.rewards[r].cost

\* no two rows of the rewards table carry the same name
NamesUnique(rows) ==
  \A i, j \in DOMAIN rows : i # j => rows[i].name # rows[j].name

\* C19: reward names are unique for good: no reachable state has two rewards
\* of the same name, and a create whose name some row carries, a soft-deleted
\* row included, fails with DuplicateName ('Reward name already exists') and
\* leaves the catalog as it was.
C19_NameUnique ==
  /\ NamesUnique(db.rewards)
  /\ [][/\ NamesUnique(db'.rewards)
        /\ NamesUnique(wdb'.rewards)
        /\ \A c \in Clients :
             ( /\ rw_insert(c)
               /\ \E r \in DOMAIN db.rewards :
                    db.rewards[r].name = req[c].arg.name )
             => /\ resp' = [client |-> c, success |-> FALSE,
                            message |-> "Reward name already exists",
                            new_balance |-> 0]
                /\ pc'[c] = "idle"
                /\ db' = db /\ wdb' = wdb]_vars

\* a create was answered with DuplicateName while the only row that can
\* carry the posted name is soft-deleted
C19_Witness ==
  \E c \in Clients :
    /\ pc[c] = "idle"
    /\ resp.client = c /\ resp.message = "Reward name already exists"
    /\ Len(db.rewards) = NumRewards
    /\ ~db.rewards[1].is_active

\* the columns of a rewards row other than updated_at
RewardColumns ==
  {"id", "name", "display_name", "image_filename", "cost", "stock", "is_active"}

\* C20: a catalog update applies the supplied fields and nothing else: when
\* the update commits, every supplied field of the target row has the
\* supplied value, every other field of it (updated_at aside) and every
\* other row keep their values, and no other table changes.
C20_UpdateFrame ==
  [][\A c \in Clients :
       (rw_commit(c) /\ req[c].op = "reward_update") =>
         LET id == req[c].arg.id
             data == req[c].arg.data
         IN /\ DOMAIN db'.rewards = DOMAIN db.rewards
            /\ \A r \in DOMAIN db.rewards :
                 r # id => db'.rewards[r] = db.rewards[r]
            /\ id \in DOMAIN db.rewards =>
                 \A f \in RewardColumns :
                   db'.rewards[id][f] =
                     IF f \in DOMAIN data THEN data[f] ELSE db.rewards[id][f]
            /\ db'.users = db.users
            /\ db'.deposits = db.deposits
            /\ db'.redeems = db.redeems]_vars

\* an update that supplied the cost alone has committed: row 1 costs the
\* supplied 5 and keeps its name, its stock and its is_active
C20_Witness ==
  \E c \in Clients :
    /\ pc[c] = "rw_log"
    /\ req[c].op = "reward_update"
    /\ req[c].arg.id = 1
    /\ DOMAIN req[c].arg.data = {"cost"}
    /\ db.rewards[1].cost = PutValue.cost
    /\ db.rewards[1].stock = InitStock
    /\ db.rewards[1].is_active

\* C13: an account with is_active = 0 rejects every transaction: a deposit
\* issued on a terminal bound to it is turned away at once, and a redeem is
\* turned away at the lookup of the account at the latest; neither goes on
\* to a write.
C13_InactiveRejected ==
  [][\A c \in Clients :
       (session[c] # None /\ ~db.users[session[c]].is_active) =>
         /\ \A item_type \in ItemTypes :
              api_user_deposit(c, item_type) =>
                pc'[c] = "idle" /\ resp'.client = c /\ ~resp'.success
         /\ red_select_user(c) =>
              pc'[c] = "idle" /\ resp'.client = c /\ ~resp'.success]_vars

\* C14: once the clock is past the expiration_date of an account, a deposit
\* issued on a terminal bound to it is turned away at once, and a redeem is
\* turned away at the lookup of the account at the latest; neither goes on
\* to a write.
C14_ExpiredRejected ==
  [][\A c \in Clients :
       (session[c] # None /\ now > db.users[session[c]].expiration_date) =>
         /\ \A item_type \in ItemTypes :
              api_user_deposit(c, item_type) =>
                pc'[c] = "idle" /\ resp'.client = c /\ ~resp'.success
         /\ red_select_user(c) =>
              pc'[c] = "idle" /\ resp'.client = c /\ ~resp'.success]_vars

\* C18: an explicit logout returns the terminal session to Anonymous,
\* whatever it was bound to; on an Anonymous session it changes nothing.
C18_LogoutUnbinds ==
  [][\A c \in Clients : admin_logout(c) => session'[c] = None]_vars

\* C21: a catalog update whose id matches no row of the rewards table does
\* not report success (it fails with NotFound) and leaves the catalog as it
\* was.
C21_UpdateNotFound ==
  [][\A c \in Clients :
       ( /\ rw_log(c)
         /\ req[c].op = "reward_update"
         /\ req[c].arg.id \notin DOMAIN db.rewards )
       => ~resp'.success]_vars

\* C22: every row of the rewards table has stock >= 0 and cost > 0, whatever
\* creates, updates, soft deletes and redemptions have run.
C22_StockAndCostInRange ==
  \A r \in DOMAIN db.rewards :
    db.rewards[r].stock >= 0 /\ db.rewards[r].cost > 0

\* C23: every core operation emits exactly one event, whether it completes
\* or is rejected: an operation answered by its first step, an operation
\* that ends at its log_event and an operation that ends at a failing
\* statement each leave one more row in system_logs.
C23_OneEventPerOperation ==
  [][\A c \in Clients :
       /\ (pc[c] = "idle" /\ pc'[c] = "idle" /\ resp'.client = c)
            => db'.logs = db.logs + 1
       /\ (pc[c] \in LogPcs /\ pc'[c] = "idle") => db'.logs = db.logs + 1
       /\ (pc[c] \in WritePcs /\ pc'[c] = "idle")
            => db'.logs = db.logs + 1]_vars

\* the rows of `old` are the first rows of `new`, field by field
IsPrefix(old, new) ==
  /\ Len(old) <= Len(new)
  /\ \A i \in 1..Len(old) : new[i] = old[i]

\* C24: the deposits and the redeems tables are append-only: every step
\* leaves the committed rows in place, unchanged, and at most adds rows
\* after them.
C24_AppendOnly ==
  [][/\ IsPrefix(db.deposits, db'.deposits)
     /\ IsPrefix(db.redeems, db'.redeems)]_vars

\* a second deposit has been committed after a redemption was recorded
C24_Witness ==
  /\ Len(db.deposits) >= 2
  /\ Len(db.redeems) >= 1

\* C27: a deposit or a redeem issued while the session is Anonymous is
\* rejected ('Not logged in') and changes nothing: no balance, no stock, no
\* history row, nothing pending.
C27_AnonymousRejected ==
  [][\A c \in Clients :
       session[c] = None =>
         /\ \A item_type \in ItemTypes :
              api_user_deposit(c, item_type) =>
                /\ resp' = [client |-> c, success |-> FALSE,
                            message |-> "Not logged in", new_balance |-> 0]
                /\ pc'[c] = "idle"
                /\ db' = db /\ wdb' = wdb
         /\ \A name \in RequestNames :
              api_user_redeem(c, name) =>
                /\ resp' = [client |-> c, success |-> FALSE,
                            message |-> "Not logged in", new_balance |-> 0]
                /\ pc'[c] = "idle"
                /\ db' = db /\ wdb' = wdb]_vars

\* an Anonymous terminal was turned away while another terminal, bound to an
\* account, had a deposit credited
C27_Witness ==
  \E c \in Clients :
    /\ pc[c] = "idle"
    /\ session[c] = None
    /\ resp.client = c /\ resp.message = "Not logged in"
    /\ db.deposits # <<>>

\* C28: a deposit or a redeem touches the account bound to the requesting
\* session only: when it commits, the balance of every other account is as
\* it was; a deposit leaves every reward row as it was and a redeem every
\* reward row other than the redeemed one.
C28_OnlyBoundAccount ==
  [][\A c \in Clients :
       /\ (dep_commit(c) \/ red_commit(c)) =>
            /\ Len(db'.users) = Len(db.users)
            /\ \A u \in 1..Len(db.users) :
                 u # session[c] => db'.users[u] = db.users[u]
       /\ dep_commit(c) => db'.rewards = db.rewards
       /\ red_commit(c) =>
            /\ DOMAIN db'.rewards = DOMAIN db.rewards
            /\ \A r \in DOMAIN db.rewards :
                 r # reward[c].id => db'.rewards[r] = db.rewards[r]]_vars

\* a redeem has committed while a second account exists
C28_Witness ==
  \E c \in Clients :
    /\ pc[c] = "red_log"
    /\ Len(db.users) >= 2
    /\ db.redeems # <<>>

\* C29: when several preconditions of a redeem fail at once the first in
\* this order is reported: reward absent or inactive, then stock <= 0, then
\* the validity of the account (is_active, expiration_date), then balance
\* below cost.
C29_ErrorOrder ==
  [][\A c \in Clients :
       /\ \A name \in RequestNames :
            (api_user_redeem(c, name) /\ session[c] # None) =>
              LET found == \E r \in DOMAIN db.rewards :
                             /\ db.rewards[r].name = name
                             /\ db.rewards[r].is_active
                  soldout == \E r \in DOMAIN db.rewards :
                               /\ db.rewards[r].name = name
                               /\ db.rewards[r].is_active
                               /\ db.rewards[r].stock <= 0
              IN /\ ~found => resp'.message = "Reward not available"
                 /\ soldout => resp'.message = "Reward out of stock"
       /\ ( /\ red_select_user(c)
            /\ \/ ~db.users[session[c]].is_active
               \/ now > db.users[session[c]].expiration_date )
          => /\ pc'[c] = "idle"
             /\ ~resp'.success
             /\ resp'.message # "Insufficient points"]_vars

\* C30: a scan of a known card changes the last_login of that account and
\* the binding of the scanning terminal, nothing else: no balance, no reward
\* row, no deposit or redeem row changes in any of its steps, and a scan of
\* the card the terminal is bound to leaves the binding as it is.
C30_KnownScanFrame ==
  [][\A c \in Clients :
       /\ \A uid \in Cards :
            ( /\ api_rfid_read(c, uid)
              /\ \E i \in 1..Len(db.users) : db.users[i].rfid_uid = uid )
            => /\ db' = db /\ wdb' = wdb
               /\ \A d \in Clients : d # c => session'[d] = session[d]
               /\ \E i \in 1..Len(db.users) :
                    /\ db.users[i].rfid_uid = uid
                    /\ session'[c] = i
                    /\ session[c] = i => session' = session
       /\ rfid_commit(c) =>
            db' = [db EXCEPT !.users[user[c].id].last_login = TRUE]
       /\ rfid_log(c) => db' = [db EXCEPT !.logs = @ + 1]
       /\ (rfid_update(c) \/ rfid_commit(c) \/ rfid_log(c)) =>
            session' = session]_vars

\* the card of the account a terminal is bound to was scanned again on that
\* terminal while the account holds points
C30_Witness ==
  \E c \in Clients :
    /\ pc[c] = "rfid_log"
    /\ session[c] = InitSession(c)
    /\ user[c].id = session[c]
    /\ db.users[session[c]].balance > 0

\* C25: the reader coalesces rapid repeated reads: a read of the UID that
\* was forwarded last, no more than 2 seconds after that forward, posts no
\* request to the server.
C25_Coalesced ==
  [][\A data \in RawReads, ok \in BOOLEAN :
       ( /\ run(data, ok)
         /\ reader.last_uid # NoUid
         /\ parse_uid(data) = reader.last_uid
         /\ reader.time - reader.last_read_time <= READ_WINDOW )
       => reader'.sent = reader.sent]_vars

\* the first read was forwarded and the second read, of the same UID within
\* the window but later, posted nothing
C25_Witness ==
  /\ reader.reads = 2
  /\ Len(reader.sent) = 1
  /\ reader.sent[1].n = 1
  /\ reader.uid = reader.last_uid
  /\ reader.time > reader.last_read_time
  /\ reader.time - reader.last_read_time <= READ_WINDOW

\* the upper-case form of one character
ToUpper(ch) ==
  CASE ch = "a" -> "A" [] ch = "b" -> "B" [] ch = "c" -> "C"
    [] ch = "d" -> "D" [] ch = "e" -> "E" [] ch = "f" -> "F"
    [] OTHER -> ch

\* a line without its separators and in upper case
Fold(data) ==
  LET clean_data == SelectSeq(data, IsAlnum)
  IN [i \in 1..Len(clean_data) |-> ToUpper(clean_data[i])]

\* C26: card identifiers are normalised before the lookup: two lines that
\* differ in letter case or in separators only are parsed to the same
\* token, and the parse of a token is that token.
C26_Normalised ==
  [][/\ Fold(reader'.raw) = Fold(reader.raw) => reader'.uid = reader.uid
     /\ reader'.uid # NoUid => parse_uid(reader'.uid) = reader'.uid]_vars

\* C31: stock is conserved against the redemption history: with no
\* administrative stock update, for every reward the committed stock plus the
\* number of redeems rows of that reward is the initial stock, so the
\* redemptions of a reward never outnumber its initial stock.
C31_StockConserved ==
  \A r \in RewardIds :
    /\ db.rewards[r].stock + RedeemCount(r) = InitStock
    /\ RedeemCount(r) <= InitStock

\* C32: the reader posts a read UID exactly when it differs from last_uid
\* and more than 2 seconds have passed since the last post; every post, also
\* a failed one, sets last_uid and last_read_time, and nothing else does.  So
\* no two consecutive posts carry the same UID, however far apart, and a
\* failed post is not retried.
C32_ForwardRule ==
  [][/\ \A data \in RawReads, ok \in BOOLEAN :
          run(data, ok) =>
            LET uid == parse_uid(data)
                due == /\ uid # NoUid
                       /\ uid # reader.last_uid
                       /\ reader.time - reader.last_read_time > READ_WINDOW
            IN IF due
               THEN /\ Len(reader'.sent) = Len(reader.sent) + 1
                    /\ reader'.sent[Len(reader'.sent)].uid = uid
                    /\ reader'.last_uid = uid
                    /\ reader'.last_read_time = reader.time
               ELSE /\ reader'.sent = reader.sent
                    /\ reader'.last_uid = reader.last_uid
                    /\ reader'.last_read_time = reader.last_read_time
     /\ \A i \in 1..(Len(reader'.sent) - 1) :
          /\ reader'.sent[i].uid # reader'.sent[i + 1].uid
          /\ reader'.sent[i + 1].at - reader'.sent[i].at > READ_WINDOW]_vars

\* the first read was posted and the send failed; the second read, of the
\* same UID after the window had passed, posted nothing
C32_Witness ==
  /\ reader.reads = 2
  /\ Len(reader.sent) = 1
  /\ reader.sent[1].n = 1
  /\ ~reader.sent[1].ok
  /\ reader.uid = reader.last_uid
  /\ reader.time - reader.last_read_time > READ_WINDOW

====
